---------------------------- MODULE Spec2Model ----------------------------
(***************************************************************************)
(* A model of rasterflow's geometry layer: the boundary meshes             *)
(* (PolygonMesh, TriangleMesh) with their accessors and mutators, the OBJ  *)
(* reader and writer, Tetrahedron identity, and the calls of the cell mesh *)
(* and of the discretizer.                                                 *)
(*                                                                         *)
(* Conventions.  Rust indices are 0-based, TLA+ sequences 1-based: the     *)
(* element with Rust index i is s[i + 1].  A Float is modelled exactly as  *)
(* an integer number of tenths (10 is 1.0, 5 is 0.5, -10 is -1.0), so that *)
(* arithmetic is exact and text conversion is not the identity.  A Point3  *)
(* is a triple of Floats.  Strings are sequences of one-character strings. *)
(***************************************************************************)
EXTENDS Integers, Sequences, FiniteSets, TLC

VARIABLES
    kind,          \* "PolygonMesh" or "TriangleMesh": the concrete mesh type
    vertices,      \* Vec<Point3>
    faces,         \* Vec<Vec<usize>> / Vec<[usize; 3]>
    face_normals,  \* Vec<UnitVec3>
    op,            \* the last call on the mesh: its arguments and its result
    tetA, tetB,    \* two Tetrahedron values
    tetRes,        \* "none", or the result of tetA == tetB
    src,           \* the PolygonMesh write_obj is called on: [vertices, faces]
    file,          \* the OBJ file: a sequence of lines, without their newlines
    pc,            \* "idle", "write", "written", "load" or "loaded"
    cursor,        \* write_obj: elements written; load_obj: lines read
    bytes,         \* write_obj's byte counter
    loadRes,       \* load_obj's result: [status, err]
    threshold_angle, \* TetrahedralDiscretizerConfig, in units of pi / 4
    tetMesh,       \* a TetrahedralMesh: [vertices, faces]
    call,          \* the last call of iter or discretize: [name, status, err]
    tri            \* to_triangle_mesh's result: [status, err, vertices, faces, face_normals]

meshVars == <<kind, vertices, faces, face_normals, op>>
tetVars == <<tetA, tetB, tetRes>>
objVars == <<src, file, pc, cursor, bytes, loadRes>>
cellVars == <<threshold_angle, tetMesh, call>>

-----------------------------------------------------------------------------
(* Bounds of the model. *)

MaxVertices == 3    \* add_vertex calls per mesh
MaxFaces == 2       \* stored faces per mesh
MaxGetIdx == 2      \* indices handed to the accessors are 0..MaxGetIdx
MaxTetCoord == 3    \* tetrahedron corners are (c, 0, 0), c in 0..MaxTetCoord
MaxSrcVertices == 3 \* vertices of a mesh handed to write_obj
MaxSrcFaces == 2    \* faces of a mesh handed to write_obj
MaxLines == 4       \* lines of a file handed to load_obj
MaxFaultyLines == 3 \* lines of a file with faulty lines handed to load_obj

-----------------------------------------------------------------------------
(* Vectors. *)

Abs(n) == IF n < 0 THEN -n ELSE n

RECURSIVE Gcd(_, _)
Gcd(a, b) == IF b = 0 THEN a ELSE Gcd(b, a % b)

Sub(a, b) == <<a[1] - b[1], a[2] - b[2], a[3] - b[3]>>

Cross(u, v) == <<u[2] * v[3] - u[3] * v[2],
                 u[3] * v[1] - u[1] * v[3],
                 u[1] * v[2] - u[2] * v[1]>>

ZeroVec == <<0, 0, 0>>

(* A UnitVec3.  Unit::new_normalize divides the vector by its norm: for a  *)
(* non-zero vector the result is determined by the direction, kept here as *)
(* the primitive integer vector of that direction; for the zero vector the *)
(* division is 0/0 in every component, a vector of NaNs.                   *)
NaNVec == [nan |-> TRUE, dir |-> ZeroVec]

new_normalize(v) ==
    IF v = ZeroVec THEN NaNVec
    ELSE LET g == Gcd(Gcd(Abs(v[1]), Abs(v[2])), Abs(v[3]))
         IN [nan |-> FALSE, dir |-> <<v[1] \div g, v[2] \div g, v[3] \div g>>]

(* Option<UnitVec3> *)
None == [some |-> FALSE, val |-> NaNVec]
Some(n) == [some |-> TRUE, val |-> n]

-----------------------------------------------------------------------------
(* Tetrahedron identity. *)

PERM4 == <<
    <<0, 1, 2, 3>>, <<0, 1, 3, 2>>, <<0, 2, 1, 3>>, <<0, 2, 3, 1>>,
    <<0, 3, 1, 2>>, <<0, 3, 2, 1>>, <<1, 0, 2, 3>>, <<1, 0, 3, 2>>,
    <<1, 2, 0, 3>>, <<1, 2, 3, 0>>, <<1, 3, 0, 2>>, <<1, 3, 2, 0>>,
    <<2, 0, 1, 3>>, <<2, 0, 3, 1>>, <<2, 1, 0, 3>>, <<2, 1, 3, 0>>,
    <<2, 3, 0, 1>>, <<2, 3, 1, 0>>, <<3, 0, 1, 2>>, <<3, 0, 2, 1>>,
    <<3, 1, 0, 2>>, <<3, 1, 2, 0>>, <<3, 2, 0, 1>>, <<3, 2, 1, 0>> >>

(* The cyclic rotations only: what the table would be if it listed the     *)
(* rotations of a tuple instead of the whole permutation group.            *)
TetrahedronEqRotations(self, other) ==
    \E r \in 0..3 : \A i \in 0..3 : self[((i + r) % 4) + 1] = other[i + 1]

(* impl PartialEq for Tetrahedron: some row x of PERM4 has                 *)
(* self.0[x[i]] == other.0[i] for every i in 0..4.                         *)
TetrahedronEq(self, other) ==
    \E k \in 1..Len(PERM4) :
        \A i \in 0..3 : self[PERM4[k][i + 1] + 1] = other[i + 1]

TetPoints == {<<c, 0, 0>> : c \in 0..MaxTetCoord}
Tetrahedra == [1..4 -> TetPoints]

-----------------------------------------------------------------------------
(* MeshError values. *)

IndexingError(msg) == [variant |-> "IndexingError", msg |-> msg]
FormatError(msg) == [variant |-> "FormatError", msg |-> msg]
NoError == [variant |-> "", msg |-> ""]

-----------------------------------------------------------------------------
(* PolyMesh: the accessors.  Each returns [status, err, val]; status is    *)
(* "Ok" or "Err".                                                          *)

get_vertex_count(verts) == Len(verts)

get_face_count(fcs) == Len(fcs)

(* Vec::get with an inclusive bound: the off-by-one of `idx <= len`. *)
get_vertex_inclusive(verts, idx) ==
    IF idx + 1 <= Len(verts) + 1 /\ Len(verts) > 0
    THEN [status |-> "Ok", err |-> NoError,
          val |-> verts[IF idx + 1 <= Len(verts) THEN idx + 1 ELSE Len(verts)]]
    ELSE [status |-> "Err", err |-> IndexingError("Indexing failed."), val |-> ZeroVec]

get_vertex(verts, idx) ==
    IF idx < Len(verts)
    THEN [status |-> "Ok", err |-> NoError, val |-> verts[idx + 1]]
    ELSE [status |-> "Err", err |-> IndexingError("Indexing failed."), val |-> ZeroVec]

get_face(fcs, index) ==
    IF index < Len(fcs)
    THEN [status |-> "Ok", err |-> NoError, val |-> fcs[index + 1]]
    ELSE [status |-> "Err", err |-> IndexingError("Indexing failed."), val |-> <<>>]

get_normal(normals, idx) ==
    IF idx < Len(normals)
    THEN [status |-> "Ok", err |-> NoError, val |-> normals[idx + 1]]
    ELSE [status |-> "Err", err |-> IndexingError("Indexing failed."), val |-> NaNVec]

-----------------------------------------------------------------------------
(* get_face_normal: the vertices face[0], face[1], face[2] are fetched in  *)
(* that order.  Indexing the slice beyond its length panics; a vertex      *)
(* index beyond the vertex count returns the accessor's error.  There is   *)
(* no test of the cross product: a zero cross product is normalised.       *)
(* Result: [status, err, normal], status "Ok", "Err" or "Panic".           *)

FaceNormalFail(status, err) == [status |-> status, err |-> err, normal |-> NaNVec]

get_face_normal(verts, face) ==
    IF Len(face) < 1 THEN FaceNormalFail("Panic", NoError)
    ELSE LET point_origin == get_vertex(verts, face[1]) IN
    IF point_origin.status = "Err" THEN FaceNormalFail("Err", point_origin.err)
    ELSE IF Len(face) < 2 THEN FaceNormalFail("Panic", NoError)
    ELSE LET first_point == get_vertex(verts, face[2]) IN
    IF first_point.status = "Err" THEN FaceNormalFail("Err", first_point.err)
    ELSE IF Len(face) < 3 THEN FaceNormalFail("Panic", NoError)
    ELSE LET second_point == get_vertex(verts, face[3]) IN
    IF second_point.status = "Err" THEN FaceNormalFail("Err", second_point.err)
    ELSE [status |-> "Ok", err |-> NoError,
          normal |-> new_normalize(Cross(Sub(first_point.val, point_origin.val),
                                         Sub(second_point.val, point_origin.val)))]

-----------------------------------------------------------------------------
(* MutateMesh.  The operators return the fields the call leaves behind and *)
(* its result: [status, err, ret, vertices / faces / normals].             *)

(* add_normals: pushes the supplied normal, or the computed one; on an     *)
(* error of get_face_normal nothing is pushed.                             *)
(* add_normals pushing before it looks at get_face_normal's result: a      *)
(* failed computation leaves the NaN normal behind.                        *)
add_normals_push_first(verts, normals, face, face_normal) ==
    IF face_normal.some
    THEN [status |-> "Ok", err |-> NoError, normals |-> Append(normals, face_normal.val)]
    ELSE LET r == get_face_normal(verts, face) IN
         [status |-> r.status, err |-> r.err, normals |-> Append(normals, r.normal)]

add_normals(verts, normals, face, face_normal) ==
    IF face_normal.some
    THEN [status |-> "Ok", err |-> NoError, normals |-> Append(normals, face_normal.val)]
    ELSE LET r == get_face_normal(verts, face) IN
         IF r.status = "Ok"
         THEN [status |-> "Ok", err |-> NoError, normals |-> Append(normals, r.normal)]
         ELSE [status |-> r.status, err |-> r.err, normals |-> normals]

(* add_vertex returning the length after the push. *)
add_vertex_len(verts, vertex) ==
    LET pushed == Append(verts, vertex)
    IN [vertices |-> pushed, ret |-> Len(pushed)]

add_vertex(verts, vertex) ==
    LET pushed == Append(verts, vertex)
    IN [vertices |-> pushed, ret |-> Len(pushed) - 1]

(* impl MutateMesh for PolygonMesh *)
PolygonMesh_add_face(verts, fcs, normals, face, face_normal) ==
    LET a == add_normals(verts, normals, face, face_normal) IN
    IF a.status # "Ok"
    THEN [status |-> a.status, err |-> a.err, ret |-> 0,
          faces |-> fcs, normals |-> a.normals]
    ELSE LET pushed == Append(fcs, face)
         IN [status |-> "Ok", err |-> NoError, ret |-> Len(pushed) - 1,
             faces |-> pushed, normals |-> a.normals]

(* impl MutateMesh for TriangleMesh: the array [face[0], face[1], face[2]] *)
(* is built after add_normals has pushed; building it panics on a slice    *)
(* shorter than three.                                                     *)
TriangleMesh_add_face(verts, fcs, normals, face, face_normal) ==
    LET a == add_normals(verts, normals, face, face_normal) IN
    IF a.status # "Ok"
    THEN [status |-> a.status, err |-> a.err, ret |-> 0,
          faces |-> fcs, normals |-> a.normals]
    ELSE IF Len(face) < 3
    THEN [status |-> "Panic", err |-> NoError, ret |-> 0,
          faces |-> fcs, normals |-> a.normals]
    ELSE LET pushed == Append(fcs, <<face[1], face[2], face[3]>>)
         IN [status |-> "Ok", err |-> NoError, ret |-> Len(pushed) - 1,
             faces |-> pushed, normals |-> a.normals]

add_face(k, verts, fcs, normals, face, face_normal) ==
    IF k = "PolygonMesh"
    THEN PolygonMesh_add_face(verts, fcs, normals, face, face_normal)
    ELSE TriangleMesh_add_face(verts, fcs, normals, face, face_normal)

-----------------------------------------------------------------------------
(* Text.  A string is a sequence of one-character strings. *)

Digits == <<"0", "1", "2", "3", "4", "5", "6", "7", "8", "9">>

IsDigit(c) == \E d \in 1..10 : Digits[d] = c

DigitVal(c) == (CHOOSE d \in 1..10 : Digits[d] = c) - 1

Whitespace == {" ", "\t"}

RECURSIVE trim_start(_)
trim_start(s) ==
    IF s # <<>> /\ Head(s) \in Whitespace THEN trim_start(Tail(s)) ELSE s

RECURSIVE trim_end(_)
trim_end(s) ==
    IF s # <<>> /\ s[Len(s)] \in Whitespace
    THEN trim_end(SubSeq(s, 1, Len(s) - 1)) ELSE s

(* str::trim *)
trim(s) == trim_end(trim_start(s))

(* str::starts_with *)
starts_with(s, prefix) ==
    Len(s) >= Len(prefix) /\ SubSeq(s, 1, Len(prefix)) = prefix

(* str::trim_start_matches: the prefix is removed as often as it repeats *)
RECURSIVE trim_start_matches(_, _)
trim_start_matches(s, prefix) ==
    IF starts_with(s, prefix)
    THEN trim_start_matches(SubSeq(s, Len(prefix) + 1, Len(s)), prefix)
    ELSE s

(* the length of the longest prefix of s holding no character of stops *)
RunLen(s, stops) ==
    IF \E i \in 1..Len(s) : s[i] \in stops
    THEN (CHOOSE i \in 1..Len(s) :
            s[i] \in stops /\ \A j \in 1..(i - 1) : s[j] \notin stops) - 1
    ELSE Len(s)

(* str::split_ascii_whitespace, collected *)
RECURSIVE split_ascii_whitespace(_)
split_ascii_whitespace(s) ==
    IF s = <<>> THEN <<>>
    ELSE IF Head(s) \in Whitespace THEN split_ascii_whitespace(Tail(s))
    ELSE LET n == RunLen(s, Whitespace)
         IN <<SubSeq(s, 1, n)>> \o split_ascii_whitespace(SubSeq(s, n + 1, Len(s)))

(* the token taken whole, its texture and normal references included *)
split_slash_none(token) == token

(* i.split('/').next(): the part of the token before its first '/' *)
split_slash_first(token) == SubSeq(token, 1, RunLen(token, {"/"}))

RECURSIVE DigitsValue(_)
DigitsValue(s) ==
    IF s = <<>> THEN 0
    ELSE 10 * DigitsValue(SubSeq(s, 1, Len(s) - 1)) + DigitVal(s[Len(s)])

AllDigits(s) == \A i \in 1..Len(s) : IsDigit(s[i])

ParseFail == [ok |-> FALSE, val |-> 0]

RECURSIVE strip_zeros(_)
strip_zeros(s) ==
    IF Len(s) > 1 /\ Head(s) = "0" THEN strip_zeros(Tail(s)) ELSE s

(* a <= b for two digit strings of the same length *)
DigitsLeq(a, b) ==
    \/ a = b
    \/ \E i \in 1..Len(a) :
          /\ DigitVal(a[i]) < DigitVal(b[i])
          /\ \A j \in 1..(i - 1) : a[j] = b[j]

(* whether a digit string without leading zeros is at most the ten-digit   *)
(* limit                                                                   *)
WithinLimit(z, limit) == Len(z) < 10 \/ (Len(z) = 10 /\ DigitsLeq(z, limit))

(* the value of a digit string without leading zeros that is within a      *)
(* 32-bit limit.  Values of ten digits are beyond every count of the model *)
(* and are all read as the largest number the checker holds.               *)
BoundedValue(z) == IF Len(z) = 10 THEN 2147483647 ELSE DigitsValue(z)

ParseDigits(body, limit, neg) ==
    IF body = <<>> \/ ~AllDigits(body) THEN ParseFail
    ELSE IF ~WithinLimit(strip_zeros(body), limit) THEN ParseFail
    ELSE [ok |-> TRUE,
          val |-> IF neg THEN -BoundedValue(strip_zeros(body))
                  ELSE BoundedValue(strip_zeros(body))]

(* str::parse::<u32>: an optional '+', then one or more digits, the value  *)
(* at most u32::MAX.                                                       *)
parse_Uint(s) ==
    ParseDigits(IF s # <<>> /\ Head(s) = "+" THEN Tail(s) ELSE s,
                <<"4", "2", "9", "4", "9", "6", "7", "2", "9", "5">>, FALSE)

(* str::parse::<i32>: an optional sign, then one or more digits, the value *)
(* within i32.                                                             *)
parse_Int(s) ==
    IF s # <<>> /\ Head(s) = "-"
    THEN ParseDigits(Tail(s), <<"2", "1", "4", "7", "4", "8", "3", "6", "4", "8">>, TRUE)
    ELSE ParseDigits(IF s # <<>> /\ Head(s) = "+" THEN Tail(s) ELSE s,
                     <<"2", "1", "4", "7", "4", "8", "3", "6", "4", "7">>, FALSE)

(* the digits before and after the '.' of a decimal literal, as a value in *)
(* tenths                                                                  *)
FloatParts(int, frac, neg) ==
    IF ~AllDigits(int) \/ ~AllDigits(frac) \/ (int = <<>> /\ frac = <<>>)
    THEN ParseFail
    ELSE [ok |-> TRUE,
          val |-> (IF neg THEN -1 ELSE 1)
                    * (10 * DigitsValue(int)
                        + (IF frac = <<>> THEN 0 ELSE DigitVal(frac[1])))]

FloatBody(body, neg) ==
    FloatParts(SubSeq(body, 1, RunLen(body, {"."})),
               SubSeq(body, RunLen(body, {"."}) + 2, Len(body)), neg)

(* str::parse::<f32> on decimal literals: an optional sign, digits with an *)
(* optional '.', at least one digit.  The value is in tenths, so the first *)
(* fractional digit is read; the strings of this model carry no further    *)
(* non-zero fractional digit, no exponent and no "inf" or "nan".           *)
parse_Float(s) ==
    IF s # <<>> /\ Head(s) \in {"+", "-"}
    THEN FloatBody(Tail(s), Head(s) = "-")
    ELSE FloatBody(s, FALSE)

(* usize::to_string *)
RECURSIVE to_string(_)
to_string(n) ==
    IF n < 10 THEN <<Digits[n + 1]>>
    ELSE to_string(n \div 10) \o <<Digits[(n % 10) + 1]>>

(* Display for f32: the shortest decimal that reads back as the value, no  *)
(* exponent, no ".0" on a whole number.                                    *)
fmt_Float(t) ==
    (IF t < 0 THEN <<"-">> ELSE <<>>)
        \o to_string(Abs(t) \div 10)
        \o (IF Abs(t) % 10 = 0 THEN <<>> ELSE <<".", Digits[(Abs(t) % 10) + 1]>>)

(* [String]::join(" ") *)
RECURSIVE join(_)
join(strs) ==
    IF strs = <<>> THEN <<>>
    ELSE IF Len(strs) = 1 THEN strs[1]
    ELSE strs[1] \o <<" ">> \o join(Tail(strs))

-----------------------------------------------------------------------------
(* The OBJ reader. *)

(* process_obj_vertices: the first three tokens, each parsed as a Float,   *)
(* or failing that as an Int; then add_vertex.  Result: [status, err,      *)
(* vertices].                                                              *)
FloatOrInt(f, n) ==
    IF f.ok THEN [status |-> "Ok", err |-> NoError, val |-> f.val]
    ELSE IF n.ok THEN [status |-> "Ok", err |-> NoError, val |-> 10 * n.val]
    ELSE [status |-> "Err", err |-> FormatError("Failed to parse float."), val |-> 0]

VertexToken(tokens, i) ==
    IF i > Len(tokens)
    THEN [status |-> "Err", err |-> FormatError("Unable to process string."), val |-> 0]
    ELSE FloatOrInt(parse_Float(tokens[i]), parse_Int(tokens[i]))

VertexFromTokens(verts, x, y, z) ==
    IF x.status = "Err" THEN [status |-> "Err", err |-> x.err, vertices |-> verts]
    ELSE IF y.status = "Err" THEN [status |-> "Err", err |-> y.err, vertices |-> verts]
    ELSE IF z.status = "Err" THEN [status |-> "Err", err |-> z.err, vertices |-> verts]
    ELSE [status |-> "Ok", err |-> NoError,
          vertices |-> add_vertex(verts, <<x.val, y.val, z.val>>).vertices]

VertexFromStrings(verts, point_strings) ==
    VertexFromTokens(verts, VertexToken(point_strings, 1),
                     VertexToken(point_strings, 2), VertexToken(point_strings, 3))

process_obj_vertices(verts, vertex_string) ==
    VertexFromStrings(verts, split_ascii_whitespace(vertex_string))

(* The loop of process_obj_faces over the tokens from the i-th on, face    *)
(* being the indices pushed so far, and its body on the parsed index.      *)
(* parsed - 1 on a parsed 0 overflows: with overflow checks (a debug       *)
(* build) it panics, without them it wraps to the largest value, which is  *)
(* no vertex.  Result: [status, err, face].                                *)
RECURSIVE FaceIndices(_, _, _, _, _)
RECURSIVE FaceIndex(_, _, _, _, _, _)
FaceIndex(tokens, i, face, vertex_count, overflow_checks, index) ==
    IF ~index.ok
    THEN [status |-> "Err", err |-> FormatError("Failed to parse integer."),
          face |-> face]
    ELSE IF index.val = 0 /\ overflow_checks
    THEN [status |-> "Panic", err |-> NoError, face |-> face]
    ELSE IF index.val # 0 /\ index.val - 1 < vertex_count
    THEN FaceIndices(tokens, i + 1, Append(face, index.val - 1), vertex_count,
                     overflow_checks)
    ELSE [status |-> "Err", err |-> IndexingError("Vertex not contained in mesh."),
          face |-> face]

FaceIndices(tokens, i, face, vertex_count, overflow_checks) ==
    IF i > Len(tokens) THEN [status |-> "Ok", err |-> NoError, face |-> face]
    ELSE FaceIndex(tokens, i, face, vertex_count, overflow_checks,
                   parse_Uint(split_slash_first(tokens[i])))

(* process_obj_faces without its test of face.len(): a short face goes to  *)
(* add_face.                                                               *)
FaceFromIndices_unchecked(verts, fcs, normals, r) ==
    IF r.status # "Ok"
    THEN [status |-> r.status, err |-> r.err, ret |-> 0,
          faces |-> fcs, normals |-> normals]
    ELSE PolygonMesh_add_face(verts, fcs, normals, r.face, None)

(* process_obj_faces after its loop, r being the loop's result.  Result:   *)
(* [status, err, ret, faces, normals].                                     *)
FaceFromIndices(verts, fcs, normals, r) ==
    IF r.status # "Ok"
    THEN [status |-> r.status, err |-> r.err, ret |-> 0,
          faces |-> fcs, normals |-> normals]
    ELSE IF Len(r.face) < 3
    THEN [status |-> "Err",
          err |-> FormatError("Face does not have enough verticies."), ret |-> 0,
          faces |-> fcs, normals |-> normals]
    ELSE PolygonMesh_add_face(verts, fcs, normals, r.face, None)

process_obj_faces(verts, fcs, normals, face_string, overflow_checks) ==
    FaceFromIndices(verts, fcs, normals,
                    FaceIndices(split_ascii_whitespace(face_string), 1, <<>>,
                                get_vertex_count(verts), overflow_checks))

(* The regular expression of load_obj: anchored at the start of the line,  *)
(* one of #, vt, vn, vp, g, o, s, usemtl, mtllib, l, then an optional      *)
(* group of spaces and anything.  The group being optional, it matches     *)
(* every line that begins with one of the alternatives.                    *)
DirectivePrefixes ==
    {<<"#">>, <<"v", "t">>, <<"v", "n">>, <<"v", "p">>, <<"g">>, <<"o">>, <<"s">>,
     <<"u", "s", "e", "m", "t", "l">>, <<"m", "t", "l", "l", "i", "b">>, <<"l">>}

regex_is_match(s) == \E d \in DirectivePrefixes : starts_with(s, d)

VertexLineRead(r, fcs, normals) ==
    [status |-> r.status, err |-> r.err, vertices |-> r.vertices,
     faces |-> fcs, normals |-> normals]

FaceLineRead(r, verts) ==
    [status |-> r.status, err |-> r.err, vertices |-> verts,
     faces |-> r.faces, normals |-> r.normals]

(* The body of load_obj's loop on the trimmed line. *)
load_obj_trimmed(verts, fcs, normals, buffer_string, overflow_checks) ==
    IF starts_with(buffer_string, <<"v", " ">>)
    THEN VertexLineRead(
             process_obj_vertices(verts, trim_start_matches(buffer_string, <<"v", " ">>)),
             fcs, normals)
    ELSE IF starts_with(buffer_string, <<"f", " ">>)
    THEN FaceLineRead(
             process_obj_faces(verts, fcs, normals,
                               trim_start_matches(buffer_string, <<"f", " ">>),
                               overflow_checks),
             verts)
    ELSE IF regex_is_match(buffer_string) \/ buffer_string = <<>>
    THEN [status |-> "Ok", err |-> NoError, vertices |-> verts,
          faces |-> fcs, normals |-> normals]
    ELSE [status |-> "Err", err |-> FormatError("Invalid file line."),
          vertices |-> verts, faces |-> fcs, normals |-> normals]

(* One turn of load_obj's loop on a line read from the file.  Result:      *)
(* [status, err, vertices, faces, normals].                                *)
load_obj_line(verts, fcs, normals, line, overflow_checks) ==
    load_obj_trimmed(verts, fcs, normals, trim(line), overflow_checks)

-----------------------------------------------------------------------------
(* The OBJ writer: the lines write_obj formats. *)

vertex_line(vertex) ==
    <<"v", " ">> \o fmt_Float(vertex[1]) \o <<" ">> \o fmt_Float(vertex[2])
                 \o <<" ">> \o fmt_Float(vertex[3])

(* the face written with its indices as they are in memory *)
face_line_zero_based(face) ==
    <<"f", " ">> \o join([i \in 1..Len(face) |-> to_string(face[i])])

face_line(face) ==
    <<"f", " ">> \o join([i \in 1..Len(face) |-> to_string(face[i] + 1)])

(* the count of a line without the newline writeln! appends *)
line_bytes_no_newline(string) == Len(string)

(* string.len() + 1: what write_obj adds to bytes for a line *)
line_bytes(string) == Len(string) + 1

-----------------------------------------------------------------------------
(* The calls a mesh builder makes.  op records the last call; after a      *)
(* panic the builder's thread has unwound and makes no further call, and   *)
(* the mesh is left as the unwinding found it.                             *)

PointPool == {<<0, 0, 0>>, <<10, 0, 0>>, <<0, 10, 0>>}

(* a slice too short for a face, a triangle and a quadrilateral; the       *)
(* triangle is degenerate when two of its vertices are the same point      *)
FacePool == {<<0, 1>>, <<0, 1, 2>>, <<0, 1, 2, 3>>}

NormalPool == {None, Some([nan |-> FALSE, dir |-> <<1, 0, 0>>])}

Kinds == {"PolygonMesh", "TriangleMesh"}

NoCall ==
    [name |-> "none", idx |-> 0, point |-> ZeroVec, face |-> <<>>, normal |-> None,
     status |-> "Ok", err |-> NoError, ret |-> 0, got |-> <<>>]

Running == op.status # "Panic"

AddVertex(p) ==
    /\ Running
    /\ Len(vertices) < MaxVertices
    /\ LET r == add_vertex(vertices, p) IN
        /\ vertices' = r.vertices
        /\ op' = [NoCall EXCEPT !.name = "add_vertex", !.point = p, !.ret = r.ret]
    /\ UNCHANGED <<kind, faces, face_normals, tetVars, objVars, cellVars, tri>>

AddFace(f, n) ==
    /\ Running
    /\ Len(faces) < MaxFaces
    /\ LET r == add_face(kind, vertices, faces, face_normals, f, n) IN
        /\ faces' = r.faces
        /\ face_normals' = r.normals
        /\ op' = [NoCall EXCEPT !.name = "add_face", !.face = f, !.normal = n,
                                !.status = r.status, !.err = r.err, !.ret = r.ret]
    /\ UNCHANGED <<kind, vertices, tetVars, objVars, cellVars, tri>>

GetVertex(i) ==
    /\ Running
    /\ LET r == get_vertex(vertices, i) IN
        op' = [NoCall EXCEPT !.name = "get_vertex", !.idx = i, !.status = r.status,
                             !.err = r.err, !.got = r.val]
    /\ UNCHANGED <<kind, vertices, faces, face_normals, tetVars, objVars, cellVars, tri>>

GetFace(i) ==
    /\ Running
    /\ LET r == get_face(faces, i) IN
        op' = [NoCall EXCEPT !.name = "get_face", !.idx = i, !.status = r.status,
                             !.err = r.err, !.got = r.val]
    /\ UNCHANGED <<kind, vertices, faces, face_normals, tetVars, objVars, cellVars, tri>>

GetNormal(i) ==
    /\ Running
    /\ LET r == get_normal(face_normals, i) IN
        op' = [NoCall EXCEPT !.name = "get_normal", !.idx = i, !.status = r.status,
                             !.err = r.err, !.got = r.val]
    /\ UNCHANGED <<kind, vertices, faces, face_normals, tetVars, objVars, cellVars, tri>>

(* Tetrahedron::eq applied to the two values. *)
TetCompare ==
    /\ tetRes = "none"
    /\ tetRes' = IF TetrahedronEq(tetA, tetB) THEN "true" ELSE "false"
    /\ UNCHANGED <<tetA, tetB, meshVars, objVars, cellVars, tri>>

(* write_obj on src: one turn of its vertex loop, one turn of its face     *)
(* loop, and its return.  The file is created empty and every writeln      *)
(* appends a line.                                                         *)
WriteVertexLine ==
    /\ pc = "write"
    /\ cursor < Len(src.vertices)
    /\ LET string == vertex_line(src.vertices[cursor + 1]) IN
        /\ file' = Append(file, string)
        /\ bytes' = bytes + line_bytes(string)
    /\ cursor' = cursor + 1
    /\ UNCHANGED <<src, pc, loadRes, meshVars, tetVars, cellVars, tri>>

WriteFaceLine ==
    /\ pc = "write"
    /\ cursor >= Len(src.vertices)
    /\ cursor < Len(src.vertices) + Len(src.faces)
    /\ LET string == face_line(src.faces[cursor - Len(src.vertices) + 1]) IN
        /\ file' = Append(file, string)
        /\ bytes' = bytes + line_bytes(string)
    /\ cursor' = cursor + 1
    /\ UNCHANGED <<src, pc, loadRes, meshVars, tetVars, cellVars, tri>>

WriteReturn ==
    /\ pc = "write"
    /\ cursor = Len(src.vertices) + Len(src.faces)
    /\ pc' = "written"
    /\ UNCHANGED <<src, file, cursor, bytes, loadRes, meshVars, tetVars, cellVars, tri>>

(* load_obj on the written file: a new, empty PolygonMesh and the file     *)
(* read from its first line.                                               *)
LoadOpen ==
    /\ pc = "written"
    /\ pc' = "load"
    /\ cursor' = 0
    /\ vertices' = <<>>
    /\ faces' = <<>>
    /\ face_normals' = <<>>
    /\ UNCHANGED <<kind, op, src, file, bytes, loadRes, tetVars, cellVars, tri>>

(* One turn of load_obj's loop: the next line is read and processed; an    *)
(* error returns it, a panic ends the call.                                *)
LoadLineDone(r) ==
    /\ vertices' = r.vertices
    /\ faces' = r.faces
    /\ face_normals' = r.normals
    /\ IF r.status = "Ok"
       THEN /\ cursor' = cursor + 1
            /\ UNCHANGED <<pc, loadRes>>
       ELSE /\ pc' = "loaded"
            /\ loadRes' = [status |-> r.status, err |-> r.err]
            /\ UNCHANGED cursor

LoadLine ==
    /\ pc = "load"
    /\ cursor < Len(file)
    /\ \E overflow_checks \in BOOLEAN :
        LoadLineDone(load_obj_line(vertices, faces, face_normals, file[cursor + 1],
                                   overflow_checks))
    /\ UNCHANGED <<kind, op, src, file, bytes, tetVars, cellVars, tri>>

(* read_line returns 0 at the end of the file: Ok(Box::new(polymesh)) *)
LoadReturn ==
    /\ pc = "load"
    /\ cursor = Len(file)
    /\ pc' = "loaded"
    /\ loadRes' = [status |-> "Ok", err |-> NoError]
    /\ UNCHANGED <<cursor, meshVars, src, file, bytes, tetVars, cellVars, tri>>

vars == <<kind, vertices, faces, face_normals, op, tetA, tetB, tetRes,
          src, file, pc, cursor, bytes, loadRes, threshold_angle, tetMesh, call,
          tri>>

NoResult == [status |-> "none", err |-> NoError]

(* no file is being written or read *)
ObjIdle ==
    /\ src = [vertices |-> <<>>, faces |-> <<>>]
    /\ file = <<>>
    /\ pc = "idle"
    /\ cursor = 0
    /\ bytes = 0
    /\ loadRes = NoResult

TetIdle ==
    /\ tetA = [i \in 1..4 |-> ZeroVec]
    /\ tetB = [i \in 1..4 |-> ZeroVec]
    /\ tetRes = "none"

NoCellCall == [name |-> "none", status |-> "none", err |-> ""]

(* no cell mesh and no discretizer is in use *)
NoTriangleMesh ==
    [status |-> "none", err |-> NoError,
     vertices |-> <<>>, faces |-> <<>>, face_normals |-> <<>>]

(* no cell mesh and no discretizer is in use, no conversion has been made *)
CellIdle ==
    /\ threshold_angle = 1
    /\ tetMesh = [vertices |-> <<>>, faces |-> <<>>]
    /\ call = NoCellCall
    /\ tri = NoTriangleMesh

EmptyMesh ==
    /\ vertices = <<>>
    /\ faces = <<>>
    /\ face_normals = <<>>
    /\ op = NoCall

Init ==
    /\ kind \in Kinds
    /\ EmptyMesh
    /\ TetIdle
    /\ CellIdle
    /\ ObjIdle

Next ==
    \/ \E p \in PointPool : AddVertex(p)
    \/ \E f \in FacePool, n \in NormalPool : AddFace(f, n)
    \/ \E i \in 0..MaxGetIdx : GetVertex(i)
    \/ \E i \in 0..MaxGetIdx : GetFace(i)
    \/ \E i \in 0..MaxGetIdx : GetNormal(i)

Spec == Init /\ [][Next]_vars

InitTet ==
    /\ kind = "PolygonMesh"
    /\ EmptyMesh
    /\ tetA \in Tetrahedra
    /\ tetB \in Tetrahedra
    /\ tetRes = "none"
    /\ CellIdle
    /\ ObjIdle

NextTet == TetCompare

SpecTet == InitTet /\ [][NextTet]_vars


(* The meshes written: vertices from SrcPoints, faces from SrcFaces with   *)
(* every index below the vertex count.                                     *)
SrcPoints == {<<0, 0, 0>>, <<5, -10, 120>>, <<10, 0, 0>>}

SrcFaces == {<<0, 0, 0>>, <<0, 1, 0>>, <<1, 0, 1, 1>>, <<0, 1, 2>>, <<2, 1, 0, 2>>}

(* every index of every face is below the vertex count *)
FacesInRange(vs, fs) ==
    \A k \in 1..Len(fs) : \A j \in 1..Len(fs[k]) : fs[k][j] < Len(vs)

InitRoundTrip ==
    /\ kind = "PolygonMesh"
    /\ EmptyMesh
    /\ TetIdle
    /\ CellIdle
    /\ \E nv \in 0..MaxSrcVertices, nf \in 0..MaxSrcFaces :
          \E vs \in [1..nv -> SrcPoints], fs \in [1..nf -> SrcFaces] :
              /\ FacesInRange(vs, fs)
              /\ src = [vertices |-> vs, faces |-> fs]
    /\ file = <<>>
    /\ pc = "write"
    /\ cursor = 0
    /\ bytes = 0
    /\ loadRes = NoResult

NextRoundTrip ==
    \/ WriteVertexLine
    \/ WriteFaceLine
    \/ WriteReturn
    \/ LoadOpen
    \/ LoadLine
    \/ LoadReturn

SpecRoundTrip == InitRoundTrip /\ [][NextRoundTrip]_vars


(* The lines of the files read, each with what it says: a vertex line with *)
(* its first three numbers (in tenths), a face line with the index part of *)
(* each of its tokens, or a line that is skipped (a comment, a blank line, *)
(* a directive).                                                           *)
LineTable == {
    \* "v 1 0 0"
    [text |-> <<"v", " ", "1", " ", "0", " ", "0">>,
     kind |-> "v", nums |-> <<10, 0, 0>>],
    \* "v  0.5 +2 -3.0 1"
    [text |-> <<"v", " ", " ", "0", ".", "5", " ", "+", "2", " ", "-", "3", ".", "0", " ", "1">>,
     kind |-> "v", nums |-> <<5, 20, -30>>],
    \* " v 0 10 0<tab>"
    [text |-> <<" ", "v", " ", "0", " ", "1", "0", " ", "0", "\t">>,
     kind |-> "v", nums |-> <<0, 100, 0>>],
    \* "f 1 2 3"
    [text |-> <<"f", " ", "1", " ", "2", " ", "3">>,
     kind |-> "f", nums |-> <<1, 2, 3>>],
    \* "f 2/1/1 1/2 2//1 1"
    [text |-> <<"f", " ", "2", "/", "1", "/", "1", " ", "1", "/", "2", " ", "2", "/", "/", "1", " ", "1">>,
     kind |-> "f", nums |-> <<2, 1, 2, 1>>],
    \* "# v 9 9 9"
    [text |-> <<"#", " ", "v", " ", "9", " ", "9", " ", "9">>,
     kind |-> "skip", nums |-> <<>>],
    \* " <tab>"
    [text |-> <<" ", "\t">>,
     kind |-> "skip", nums |-> <<>>],
    \* "vn 0 0 1"
    [text |-> <<"v", "n", " ", "0", " ", "0", " ", "1">>,
     kind |-> "skip", nums |-> <<>>] }

LinePool == {l.text : l \in LineTable}

InitLoad ==
    /\ kind = "PolygonMesh"
    /\ EmptyMesh
    /\ TetIdle
    /\ CellIdle
    /\ src = [vertices |-> <<>>, faces |-> <<>>]
    /\ \E n \in 0..MaxLines : file \in [1..n -> LinePool]
    /\ pc = "load"
    /\ cursor = 0
    /\ bytes = 0
    /\ loadRes = NoResult

NextLoad ==
    \/ LoadLine
    \/ LoadReturn

SpecLoad == InitLoad /\ [][NextLoad]_vars


(* Files with faulty lines.  Each line with what it says: the keyword that *)
(* is its whole first token (v, f, a directive, a comment, or none of      *)
(* them), then for a vertex line the numbers (in tenths) and for a face    *)
(* line the index parts of the tokens after the keyword; bad holds the     *)
(* positions of the tokens that are no number.                             *)
FaultTable == {
    \* "v 1 0 0"
    [text |-> <<"v", " ", "1", " ", "0", " ", "0">>,
     kind |-> "v", nums |-> <<10, 0, 0>>, bad |-> {}],
    \* "v 1 2"
    [text |-> <<"v", " ", "1", " ", "2">>,
     kind |-> "v", nums |-> <<10, 20>>, bad |-> {}],
    \* "v 1 a 3"
    [text |-> <<"v", " ", "1", " ", "a", " ", "3">>,
     kind |-> "v", nums |-> <<10, 0, 30>>, bad |-> {2}],
    \* "v v 1 2 3"
    [text |-> <<"v", " ", "v", " ", "1", " ", "2", " ", "3">>,
     kind |-> "v", nums |-> <<0, 10, 20, 30>>, bad |-> {1}],
    \* "f 1 1 1"
    [text |-> <<"f", " ", "1", " ", "1", " ", "1">>,
     kind |-> "f", nums |-> <<1, 1, 1>>, bad |-> {}],
    \* "f 0 1 1"
    [text |-> <<"f", " ", "0", " ", "1", " ", "1">>,
     kind |-> "f", nums |-> <<0, 1, 1>>, bad |-> {}],
    \* "f 1 1"
    [text |-> <<"f", " ", "1", " ", "1">>,
     kind |-> "f", nums |-> <<1, 1>>, bad |-> {}],
    \* "o cube"
    [text |-> <<"o", " ", "c", "u", "b", "e">>,
     kind |-> "directive", nums |-> <<>>, bad |-> {}],
    \* "# x"
    [text |-> <<"#", " ", "x">>,
     kind |-> "comment", nums |-> <<>>, bad |-> {}],
    \* "oops"
    [text |-> <<"o", "o", "p", "s">>,
     kind |-> "unknown", nums |-> <<>>, bad |-> {}],
    \* "x 1"
    [text |-> <<"x", " ", "1">>,
     kind |-> "unknown", nums |-> <<>>, bad |-> {}] }

FaultPool == {l.text : l \in FaultTable}

InitLoadFaulty ==
    /\ kind = "PolygonMesh"
    /\ EmptyMesh
    /\ TetIdle
    /\ CellIdle
    /\ src = [vertices |-> <<>>, faces |-> <<>>]
    /\ \E n \in 0..MaxFaultyLines : file \in [1..n -> FaultPool]
    /\ pc = "load"
    /\ cursor = 0
    /\ bytes = 0
    /\ loadRes = NoResult

SpecLoadFaulty == InitLoadFaulty /\ [][NextLoad]_vars

(* The cell mesh and the discretizer.  Both bodies are todo!(), which      *)
(* panics with "not yet implemented" whatever the arguments.               *)
todo == [status |-> "Panic", err |-> "not yet implemented"]

(* impl CellMesh<Tetrahedron> for TetrahedralMesh *)
TetrahedralMesh_iter(self) == todo

(* impl Discretizer for TetrahedralDiscretizer *)
discretize(polymesh, config) == todo

Iter ==
    /\ call.name = "none"
    /\ call' = [name |-> "iter",
                status |-> TetrahedralMesh_iter(tetMesh).status,
                err |-> TetrahedralMesh_iter(tetMesh).err]
    /\ UNCHANGED <<threshold_angle, tetMesh, meshVars, tetVars, objVars, tri>>

Discretize ==
    /\ call.name = "none"
    /\ kind = "TriangleMesh"
    /\ call' = [name |-> "discretize",
                status |-> discretize([vertices |-> vertices, faces |-> faces,
                                       face_normals |-> face_normals],
                                      [threshold_angle |-> threshold_angle]).status,
                err |-> discretize([vertices |-> vertices, faces |-> faces,
                                    face_normals |-> face_normals],
                                   [threshold_angle |-> threshold_angle]).err]
    /\ UNCHANGED <<threshold_angle, tetMesh, meshVars, tetVars, objVars, tri>>

(* The surfaces handed to discretize: the corners of a tetrahedron and any *)
(* of its four triangles, outward, each with its computed normal.          *)
SurfacePoints == <<<<0, 0, 0>>, <<10, 0, 0>>, <<0, 10, 0>>, <<0, 0, 10>>>>

SurfaceFaces == <<<<0, 2, 1>>, <<0, 1, 3>>, <<1, 2, 3>>, <<0, 3, 2>>>>

(* the faces of SurfaceFaces at the positions of S among the first n *)
RECURSIVE Chosen(_, _)
Chosen(n, S) ==
    IF n = 0 THEN <<>>
    ELSE Chosen(n - 1, S) \o (IF n \in S THEN <<SurfaceFaces[n]>> ELSE <<>>)

(* f32 values of threshold_angle, in units of pi / 4: 0 is 0, 4 is pi *)
Angles == -1..5

TetMeshes ==
    {[vertices |-> <<>>, faces |-> <<>>],
     [vertices |-> SurfacePoints, faces |-> SurfaceFaces]}

InitCells ==
    /\ kind = "TriangleMesh"
    /\ vertices = SurfacePoints
    /\ \E S \in SUBSET (1..4) : faces = Chosen(4, S)
    /\ face_normals = [k \in 1..Len(faces) |-> get_face_normal(vertices, faces[k]).normal]
    /\ op = NoCall
    /\ TetIdle
    /\ ObjIdle
    /\ threshold_angle \in Angles
    /\ tetMesh \in TetMeshes
    /\ call = NoCellCall
    /\ tri = NoTriangleMesh

NextCells ==
    \/ Iter
    \/ Discretize

SpecCells == InitCells /\ [][NextCells]_vars

(* PolygonMesh::to_triangle_mesh.  The result is [status, err, vertices,   *)
(* faces, face_normals]; the mesh under construction is a local of the     *)
(* call, so an error or a panic leaves nothing of it.                      *)
TriangleMeshFail(status, err) ==
    [status |-> status, err |-> err,
     vertices |-> <<>>, faces |-> <<>>, face_normals |-> <<>>]

Add(u, v) == <<u[1] + v[1], u[2] + v[2], u[3] + v[3]>>

(* center_of_face /= face.len() as Float.  The coordinates of this model   *)
(* make every such quotient exact.                                         *)
DivScalar(v, n) == <<v[1] \div n, v[2] \div n, v[3] \div n>>

(* the loop that sums the vertices of a face from its i-th index on, and   *)
(* its body on the fetched vertex t: [status, err, val]                    *)
RECURSIVE SumOfFace(_, _, _, _)
RECURSIVE SumOfFaceStep(_, _, _, _, _)
SumOfFaceStep(verts, face, i, center_of_face, t) ==
    IF t.status = "Err" THEN [status |-> "Err", err |-> t.err, val |-> center_of_face]
    ELSE SumOfFace(verts, face, i + 1, Add(center_of_face, t.val))

SumOfFace(verts, face, i, center_of_face) ==
    IF i > Len(face) THEN [status |-> "Ok", err |-> NoError, val |-> center_of_face]
    ELSE SumOfFaceStep(verts, face, i, center_of_face, get_vertex(verts, face[i]))

(* the loop `for i in 0..face.len()` from i on, and its body on the result *)
(* a of add_face.  The third index of the triangle is                      *)
(* face[i + 1 % face.len()], and % binds tighter than +: it is             *)
(* face[i + (1 % face.len())], and indexing the slice at its length or     *)
(* beyond panics.                                                          *)
RECURSIVE FanOfFace(_, _, _, _, _)
RECURSIVE FanOfFaceStep(_, _, _, _, _, _)
FanOfFaceStep(mesh, face, normal, center_vertex_index, i, a) ==
    IF a.status # "Ok" THEN TriangleMeshFail(a.status, a.err)
    ELSE FanOfFace([mesh EXCEPT !.faces = a.faces, !.face_normals = a.normals],
                   face, normal, center_vertex_index, i + 1)

FanOfFace(mesh, face, normal, center_vertex_index, i) ==
    IF i >= Len(face) THEN mesh
    ELSE IF i + (1 % Len(face)) >= Len(face) THEN TriangleMeshFail("Panic", NoError)
    ELSE FanOfFaceStep(mesh, face, normal, center_vertex_index, i,
             TriangleMesh_add_face(mesh.vertices, mesh.faces, mesh.face_normals,
                 <<center_vertex_index, face[i + 1], face[i + (1 % Len(face)) + 1]>>,
                 Some(normal)))

(* the loop over the faces zipped with their normals, from the k-th pair   *)
(* on, and its body once the vertices of the face are summed (c) and the   *)
(* center is added (v)                                                     *)
RECURSIVE FacesToFans(_, _, _, _, _)
RECURSIVE FaceToFan(_, _, _, _, _, _)
RECURSIVE CenterToFan(_, _, _, _, _, _)
CenterToFan(verts, fcs, normals, mesh, k, v) ==
    FacesToFans(verts, fcs, normals,
                FanOfFace([mesh EXCEPT !.vertices = v.vertices],
                          fcs[k], normals[k], v.ret, 0),
                k + 1)

FaceToFan(verts, fcs, normals, mesh, k, c) ==
    IF c.status = "Err" THEN TriangleMeshFail("Err", c.err)
    ELSE CenterToFan(verts, fcs, normals, mesh, k,
                     add_vertex(mesh.vertices, DivScalar(c.val, Len(fcs[k]))))

FacesToFans(verts, fcs, normals, mesh, k) ==
    IF mesh.status # "Ok" THEN mesh
    ELSE IF k > Len(fcs) \/ k > Len(normals) THEN mesh
    ELSE FaceToFan(verts, fcs, normals, mesh, k, SumOfFace(verts, fcs[k], 1, ZeroVec))

to_triangle_mesh(verts, fcs, normals) ==
    FacesToFans(verts, fcs, normals,
                [status |-> "Ok", err |-> NoError,
                 vertices |-> verts, faces |-> <<>>, face_normals |-> <<>>],
                1)

ToTriangleMesh ==
    /\ kind = "PolygonMesh"
    /\ tri.status = "none"
    /\ tri' = to_triangle_mesh(vertices, faces, face_normals)
    /\ UNCHANGED <<meshVars, tetVars, objVars, cellVars>>

(* The polygon meshes converted: vertices from TriPoints, faces of three   *)
(* and four indices from TriFaces, every index below the vertex count,     *)
(* each face with the normal add_face computes for it.                     *)
TriPoints == {<<0, 0, 0>>, <<120, 0, 0>>, <<0, 120, 0>>, <<120, 120, 240>>}

TriFaces == {<<0, 1, 2>>, <<2, 1, 0, 2>>, <<0, 2, 1, 3>>}

InitTriangulate ==
    /\ kind = "PolygonMesh"
    /\ \E nv \in 0..MaxSrcVertices, nf \in 0..MaxSrcFaces :
          \E vs \in [1..nv -> TriPoints], fs \in [1..nf -> TriFaces] :
              /\ FacesInRange(vs, fs)
              /\ vertices = vs
              /\ faces = fs
    /\ face_normals = [k \in 1..Len(faces) |-> get_face_normal(vertices, faces[k]).normal]
    /\ op = NoCall
    /\ TetIdle
    /\ CellIdle
    /\ ObjIdle

NextTriangulate == ToTriangleMesh

SpecTriangulate == InitTriangulate /\ [][NextTriangulate]_vars

-----------------------------------------------------------------------------
(* Properties. *)

SameMultiset(a, b) ==
    \A p \in TetPoints :
        Cardinality({i \in 1..4 : a[i] = p}) = Cardinality({i \in 1..4 : b[i] = p})

(* C1: two tetrahedra compare equal exactly when their vertex tuples are   *)
(* equal as multisets of points, that is when one is a reordering of the   *)
(* other; repeated vertices included.                                      *)
C1_PermutationIdentity ==
    tetRes # "none" => ((tetRes = "true") <=> SameMultiset(tetA, tetB))

(* a tetrahedron of four distinct corners found equal to a reordering of   *)
(* itself that fixes no position                                           *)
C1_Witness ==
    /\ tetRes = "true"
    /\ Cardinality({tetA[i] : i \in 1..4}) = 4
    /\ \A i \in 1..4 : tetA[i] # tetB[i]

(* C2: the number of stored normals equals the number of stored faces. *)
C2_NormalCountIsFaceCount == Len(face_normals) = Len(faces)

(* C3: every vertex index of every stored face, at every position, is      *)
(* below the vertex count.                                                 *)
C3_FaceIndicesInRange ==
    \A k \in 1..Len(faces) :
        \A j \in 1..Len(faces[k]) : faces[k][j] < Len(vertices)

Getters == {"get_vertex", "get_face", "get_normal"}

GetterTarget(name) ==
    CASE name = "get_vertex" -> vertices
      [] name = "get_face" -> faces
      [] name = "get_normal" -> face_normals

(* C4: an accessor returns the element at the index when the index is      *)
(* below the count, returns IndexingError exactly when it is not, and      *)
(* leaves the mesh as it was.                                              *)
C4_AccessorsBoundsChecked ==
    [][op'.name \in Getters =>
        /\ <<vertices, faces, face_normals>>' = <<vertices, faces, face_normals>>
        /\ IF op'.idx < Len(GetterTarget(op'.name))
           THEN op'.status = "Ok" /\ op'.got = GetterTarget(op'.name)[op'.idx + 1]
           ELSE op'.status = "Err" /\ op'.err.variant = "IndexingError"
      ]_vars

(* an accessor has answered with an element, on a mesh holding faces *)
C4_Witness ==
    /\ op.name = "get_normal"
    /\ op.idx = 1
    /\ op.status = "Ok"
    /\ Len(vertices) > 1

Collinear3(verts, face) ==
    /\ Len(face) >= 3
    /\ \A j \in 1..3 : face[j] < Len(verts)
    /\ Cross(Sub(verts[face[2] + 1], verts[face[1] + 1]),
             Sub(verts[face[3] + 1], verts[face[1] + 1])) = ZeroVec

(* C5: add_face without a normal on a face whose first three vertices are  *)
(* collinear fails.                                                        *)
C5_DegenerateFaceRejected ==
    (op.name = "add_face" /\ ~op.normal.some /\ Collinear3(vertices, op.face))
        => op.status = "Err"

(* C6: add_face returns Ok or an error; it never panics. *)
C6_AddFaceNeverPanics == op.name = "add_face" => op.status \in {"Ok", "Err"}

(* C7: add_vertex returns the vertex count before the call, the new index  *)
(* holds the added point, faces and normals are untouched, and no call     *)
(* changes the point at an index already assigned.                         *)
C7_VertexIndicesStable ==
    [][/\ op'.name = "add_vertex" =>
            /\ op'.ret = Len(vertices)
            /\ get_vertex(vertices', op'.ret).status = "Ok"
            /\ get_vertex(vertices', op'.ret).val = op'.point
            /\ <<faces, face_normals>>' = <<faces, face_normals>>
       /\ \A i \in 0..(Len(vertices) - 1) : get_vertex(vertices', i) = get_vertex(vertices, i)
      ]_vars

(* a vertex added to a mesh that already holds a vertex and a face *)
C7_Witness ==
    /\ op.name = "add_vertex"
    /\ op.ret >= 1
    /\ Len(faces) >= 1

(* C8: a successful add_face returns the face count before the call, and   *)
(* the face and the normal at that index are the supplied sequence and the *)
(* supplied or computed normal.                                            *)
C8_FaceAndNormalAtReturnedIndex ==
    (op.name = "add_face" /\ op.status = "Ok") =>
        /\ op.ret = Len(faces) - 1
        /\ get_face(faces, op.ret).val = op.face
        /\ get_normal(face_normals, op.ret).val =
              IF op.normal.some THEN op.normal.val
              ELSE get_face_normal(vertices, op.face).normal

(* C9: a mesh whose faces have at least three indices, all below the       *)
(* vertex count, written by write_obj and read back by load_obj: the load  *)
(* succeeds and yields the same vertices and the same faces.               *)
C9_WriteThenLoadRoundTrip ==
    pc = "loaded" =>
        /\ loadRes.status = "Ok"
        /\ get_vertex_count(vertices) = Len(src.vertices)
        /\ \A i \in 0..(Len(src.vertices) - 1) :
              get_vertex(vertices, i).val = src.vertices[i + 1]
        /\ get_face_count(faces) = Len(src.faces)
        /\ \A i \in 0..(Len(src.faces) - 1) :
              get_face(faces, i).val = src.faces[i + 1]

(* a mesh with a fractional and a negative coordinate, a two-digit one and *)
(* a quadrilateral has been written and read back                          *)
C9_Witness ==
    /\ pc = "loaded"
    /\ \E i \in 1..Len(src.vertices) : src.vertices[i] = <<5, -10, 120>>
    /\ \E k \in 1..Len(src.faces) : Len(src.faces[k]) = 4
    /\ Len(faces) = 2

Said(line) == CHOOSE l \in LineTable : l.text = line

(* the numbers of the lines of the given kind among the first n, in order *)
RECURSIVE NumsOf(_, _, _)
NumsOf(f, n, k) ==
    IF n = 0 THEN <<>>
    ELSE NumsOf(f, n - 1, k)
            \o (IF Said(f[n]).kind = k THEN <<Said(f[n]).nums>> ELSE <<>>)

(* every index of every face line names a vertex line above it *)
WellFormedFile(f) ==
    \A n \in 1..Len(f) :
        Said(f[n]).kind = "f" =>
            \A j \in 1..Len(Said(f[n]).nums) :
                /\ Said(f[n]).nums[j] >= 1
                /\ Said(f[n]).nums[j] <= Len(NumsOf(f, n - 1, "v"))

(* C10: on a file of well-formed lines load_obj succeeds; its k-th vertex  *)
(* is the first three numbers of the k-th vertex line, its j-th face the   *)
(* indices of the j-th face line less one; no other line adds anything.    *)
C10_LoadReadsLinesInOrder ==
    (pc = "loaded" /\ WellFormedFile(file)) =>
        /\ loadRes.status = "Ok"
        /\ vertices = NumsOf(file, Len(file), "v")
        /\ Len(faces) = Len(NumsOf(file, Len(file), "f"))
        /\ \A j \in 1..Len(faces) :
              faces[j] = [i \in 1..Len(NumsOf(file, Len(file), "f")[j]) |->
                             NumsOf(file, Len(file), "f")[j][i] - 1]

(* a file of two vertex lines, a skipped line and a face line with         *)
(* texture references has been read                                        *)
C10_Witness ==
    /\ pc = "loaded"
    /\ WellFormedFile(file)
    /\ Len(file) = 4
    /\ Len(vertices) = 2
    /\ Len(faces) = 1
    /\ faces[1] = <<1, 0, 1, 0>>

(* what a line of a file with faulty lines says *)
Reads(line) == CHOOSE l \in FaultTable : l.text = line

(* load_obj is about to read a line; Cur is what the line says *)
Reading == pc = "load" /\ cursor < Len(file)

Cur == Reads(file[cursor + 1])

LoadFailsWith(err) ==
    /\ pc' = "loaded"
    /\ loadRes' = [status |-> "Err", err |-> err]

(* C11: a face line whose index tokens are numbers, one of them not in     *)
(* 1..the number of vertices read so far, makes load_obj return            *)
(* IndexingError("Vertex not contained in mesh."); no face is added and    *)
(* the load does not abort.                                                *)
C11_OutOfRangeIndexIsIndexingError ==
    [][(/\ Reading
        /\ Cur.kind = "f"
        /\ Cur.bad = {}
        /\ \E j \in 1..Len(Cur.nums) : Cur.nums[j] \notin 1..Len(vertices))
       => /\ LoadFailsWith(IndexingError("Vertex not contained in mesh."))
          /\ <<vertices, faces, face_normals>>' = <<vertices, faces, face_normals>>
      ]_vars


(* C12: a line whose first token is none of v, f, a comment or a           *)
(* recognised directive makes load_obj return FormatError("Invalid file    *)
(* line."), also when the token begins with the letters of a directive; a  *)
(* comment or a directive line is passed over.                             *)
C12_UnknownLineIsInvalid ==
    [][Reading =>
        /\ Cur.kind = "unknown" =>
              /\ LoadFailsWith(FormatError("Invalid file line."))
              /\ <<vertices, faces, face_normals>>' = <<vertices, faces, face_normals>>
        /\ Cur.kind \in {"directive", "comment"} =>
              /\ pc' = "load"
              /\ cursor' = cursor + 1
              /\ <<vertices, faces, face_normals>>' = <<vertices, faces, face_normals>>
      ]_vars

(* the first of the three coordinate positions of a vertex line that holds *)
(* no number: its token is missing or is no number; 0 when there is none   *)
FirstFault(l) ==
    IF \E i \in 1..3 : i > Len(l.nums) \/ i \in l.bad
    THEN CHOOSE i \in 1..3 :
            /\ i > Len(l.nums) \/ i \in l.bad
            /\ \A j \in 1..(i - 1) : ~(j > Len(l.nums) \/ j \in l.bad)
    ELSE 0

(* C13: a vertex line whose first three tokens are numbers adds exactly    *)
(* that vertex and the load goes on; when a token among the first three is *)
(* no number the load fails with FormatError("Failed to parse float."),    *)
(* when one is missing with FormatError("Unable to process string."); a    *)
(* failure adds no vertex and ends the load.                               *)
C13_VertexLineAddsOneOrFails ==
    [][(Reading /\ Cur.kind = "v") =>
        /\ <<faces, face_normals>>' = <<faces, face_normals>>
        /\ IF FirstFault(Cur) = 0
           THEN /\ vertices' = Append(vertices, SubSeq(Cur.nums, 1, 3))
                /\ pc' = "load"
                /\ cursor' = cursor + 1
           ELSE /\ vertices' = vertices
                /\ cursor' = cursor
                /\ LoadFailsWith(FormatError(
                      IF FirstFault(Cur) \in Cur.bad THEN "Failed to parse float."
                      ELSE "Unable to process string."))
      ]_vars

(* the bytes of a file of the given lines, each ended by a newline *)
RECURSIVE FileBytes(_)
FileBytes(f) == IF f = <<>> THEN 0 ELSE Len(Head(f)) + 1 + FileBytes(Tail(f))

(* C14: what write_obj returns is the number of bytes of the file it       *)
(* wrote: every vertex line and every face line with its newline.          *)
C14_WriteReturnsBytesWritten ==
    pc = "written" =>
        /\ bytes = FileBytes(file)
        /\ Len(file) = Len(src.vertices) + Len(src.faces)

(* a mesh with a negative, a fractional and a three-digit coordinate and a *)
(* face has been written                                                   *)
C14_Witness ==
    /\ pc = "written"
    /\ Len(src.vertices) >= 2
    /\ \E i \in 1..Len(src.vertices) : src.vertices[i] = <<5, -10, 120>>
    /\ Len(src.faces) >= 1
    /\ bytes >= 28

(* C15: a call of iter on a cell mesh ends by returning its traversal; it  *)
(* does not abort.                                                         *)
C15_IterTerminates == call.name = "iter" => call.status = "Ok"

(* the edges of a triangle, and whether every edge of a surface is shared  *)
(* by exactly two of its faces                                             *)
EdgesOf(face) == {{face[1], face[2]}, {face[2], face[3]}, {face[3], face[1]}}

ClosedSurface(fcs) ==
    \A k \in 1..Len(fcs) : \A edge \in EdgesOf(fcs[k]) :
        Cardinality({j \in 1..Len(fcs) : edge \in EdgesOf(fcs[j])}) = 2

(* threshold_angle lies strictly between 0 and pi *)
ValidAngle(a) == 0 < a /\ a < 4

(* C16: discretize on a surface with an edge that is not shared by exactly *)
(* two faces returns OpenSurfaceError; it returns no mesh and does not     *)
(* abort.                                                                  *)
C16_OpenSurfaceRejected ==
    (call.name = "discretize" /\ ValidAngle(threshold_angle) /\ ~ClosedSurface(faces))
        => (call.status = "Err" /\ call.err = "OpenSurfaceError")

(* C17: discretize with a threshold_angle that is not strictly between 0   *)
(* and pi is rejected with ConfigurationError; the configuration is not    *)
(* used.                                                                   *)
C17_BadAngleRejected ==
    (call.name = "discretize" /\ ~ValidAngle(threshold_angle))
        => (call.status = "Err" /\ call.err = "ConfigurationError")

(* C19: an add_face that returns an error leaves the vertices, the faces   *)
(* and the normals as they were before the call.                           *)
C19_FailedAddFaceChangesNothing ==
    [][(op'.name = "add_face" /\ op'.status = "Err") =>
          <<vertices, faces, face_normals>>' = <<vertices, faces, face_normals>>
      ]_vars

(* an add_face without a normal has failed on a mesh that holds a face *)
C19_Witness ==
    /\ op.name = "add_face"
    /\ op.status = "Err"
    /\ ~op.normal.some
    /\ Len(faces) >= 1
    /\ Len(face_normals) >= 1

(* every index token of a face line is a number that names a vertex read   *)
(* so far                                                                  *)
IndicesInRange(l) ==
    /\ l.bad = {}
    /\ \A j \in 1..Len(l.nums) : l.nums[j] \in 1..Len(vertices)

(* C20 as stated: every face load_obj has stored has at least three        *)
(* indices, and a face line with fewer than three index tokens makes       *)
(* load_obj fail with a FormatError, adding no face and no normal.         *)
C20_ShortFaceLineIsFormatError ==
    [][/\ \A k \in 1..Len(faces') : Len(faces'[k]) >= 3
       /\ (Reading /\ Cur.kind = "f" /\ Len(Cur.nums) < 3) =>
              /\ pc' = "loaded"
              /\ loadRes'.status = "Err"
              /\ loadRes'.err.variant = "FormatError"
              /\ <<faces, face_normals>>' = <<faces, face_normals>>
      ]_vars

(* C20 amended: the same, for a face line with fewer than three index      *)
(* tokens each of which names a vertex read so far.                        *)
C20_ShortFaceLineInRangeIsFormatError ==
    [][/\ \A k \in 1..Len(faces') : Len(faces'[k]) >= 3
       /\ (Reading /\ Cur.kind = "f" /\ Len(Cur.nums) < 3 /\ IndicesInRange(Cur)) =>
              /\ pc' = "loaded"
              /\ loadRes'.status = "Err"
              /\ loadRes'.err.variant = "FormatError"
              /\ <<faces, face_normals>>' = <<faces, face_normals>>
      ]_vars

(* a face line of two indices has been refused after a vertex and a face   *)
(* were read                                                               *)
C20_Witness ==
    /\ pc = "loaded"
    /\ loadRes.status = "Err"
    /\ loadRes.err = FormatError("Face does not have enough verticies.")
    /\ Len(vertices) >= 1
    /\ Len(faces) >= 1

(* the mean of coordinate c of the vertices of a face *)
RECURSIVE CoordSum(_, _, _, _)
CoordSum(verts, face, c, n) ==
    IF n = 0 THEN 0 ELSE CoordSum(verts, face, c, n - 1) + verts[face[n] + 1][c]

Centroid(verts, face) ==
    [c \in 1..3 |-> CoordSum(verts, face, c, Len(face)) \div Len(face)]

(* the number of indices of the first k faces *)
RECURSIVE IndexCount(_, _)
IndexCount(fcs, k) == IF k = 0 THEN 0 ELSE IndexCount(fcs, k - 1) + Len(fcs[k])

(* C21: to_triangle_mesh on a polygon mesh whose faces have three or more  *)
(* valid indices returns Ok; the triangle mesh keeps the vertices at their *)
(* indices, then holds the centroid of each face; for a face of n indices  *)
(* it holds the n triangles (centroid, face[i], face[(i + 1) mod n]) and   *)
(* no others; every triangle index is below the vertex count, there is one *)
(* normal per triangle, and the polygon mesh is as it was.                 *)
C21_TriangleFanPerFace ==
    [][(tri.status = "none" /\ tri'.status # "none") =>
        /\ <<vertices, faces, face_normals>>' = <<vertices, faces, face_normals>>
        /\ tri'.status = "Ok"
        /\ Len(tri'.vertices) = Len(vertices) + Len(faces)
        /\ \A i \in 1..Len(vertices) : tri'.vertices[i] = vertices[i]
        /\ \A k \in 1..Len(faces) :
              /\ tri'.vertices[Len(vertices) + k] = Centroid(vertices, faces[k])
              /\ \A i \in 0..(Len(faces[k]) - 1) :
                    \E t \in 1..Len(tri'.faces) :
                        tri'.faces[t] = <<Len(vertices) + k - 1, faces[k][i + 1],
                                          faces[k][((i + 1) % Len(faces[k])) + 1]>>
        /\ Len(tri'.faces) = IndexCount(faces, Len(faces))
        /\ \A t \in 1..Len(tri'.faces) :
              \A j \in 1..3 : tri'.faces[t][j] < Len(tri'.vertices)
        /\ Len(tri'.face_normals) = Len(tri'.faces)
      ]_vars

=============================================================================
